---- MODULE Spec2Model ----
(***************************************************************************)
(* A model of polyhedron_tools/misc.py: the translation between a          *)
(* polytope object and its half-space representation (A, b), and the       *)
(* LP-based support function, Chebyshev center, radius and diameter.       *)
(*                                                                         *)
(* Numbers are exact integers.  A vector is a sequence of integers, a      *)
(* matrix a sequence of rows.  The two external collaborators, the         *)
(* Polyhedron constructor and the LP solver, are modelled by what they     *)
(* return on the family of inputs the model draws: rows whose coefficient  *)
(* vector is +-e_j or +-(1,..,1) with an integer bound.  Those systems are *)
(* totally unimodular, so every vertex is an integer point and every       *)
(* extreme ray lies in {-1,0,1}^n; a search over a window of integer       *)
(* points is then an exact LP solve.                                       *)
(***************************************************************************)
EXTENDS Integers, Sequences, FiniteSets, TLC

\* ---- bounds of the model ------------------------------------------------
Dims == {1, 2}          \* ambient dimensions drawn
RowCounts == 1..2       \* numbers of rows of a caller-supplied pair (A, b)
BValues == -1..1        \* the entries b_i of a caller-supplied pair
CenterValues == -1..1   \* the entries center_i handed to BoxInfty
DValues == -1..1        \* the entries d_i of a direction
Scales == {1}           \* factors by which the backend may rescale a generator
MaxRadius == 1          \* radius handed to BoxInfty
MaxLambda == 2          \* scalars 0..MaxLambda of the homogeneity law

Rings == {"QQ", "RDF"}

\* ---- vectors ------------------------------------------------------------
RECURSIVE SumSeq(_)
SumSeq(s) == IF s = <<>> THEN 0 ELSE Head(s) + SumSeq(Tail(s))

\* <u, v>
Dot(u, v) ==
    IF Len(u) = 1 THEN u[1] * v[1]
    ELSE IF Len(u) = 2 THEN u[1] * v[1] + u[2] * v[2]
    ELSE IF Len(u) = 3 THEN u[1] * v[1] + u[2] * v[2] + u[3] * v[3]
    ELSE SumSeq([i \in 1..Len(u) |-> u[i] * v[i]])

Neg(v) == [i \in 1..Len(v) |-> -v[i]]

Scale(k, v) == [i \in 1..Len(v) |-> k * v[i]]

Abs(x) == IF x < 0 THEN -x ELSE x

SetMax(S) == CHOOSE m \in S : \A y \in S : y <= m

SetMin(S) == CHOOSE m \in S : \A y \in S : m <= y

MaxAbs(v) == IF v = <<>> THEN 0 ELSE SetMax({Abs(v[i]) : i \in 1..Len(v)})

\* zero_vector(ring, n)
zero_vector(n) == [i \in 1..n |-> 0]

\* the i-th canonical vector, as `d = zero_vector(..); d[i] = 1` builds it
UnitVec(n, i) == [j \in 1..n |-> IF j = i THEN 1 ELSE 0]

Ones(n) == [j \in 1..n |-> 1]

\* ---- integer points and the sets they test ------------------------------
\* All integer points of Z^n with sup-norm at most w.
Points(n, w) == [1..n -> (-w)..w]

\* ceil(p / q) for p >= 0, q > 0
CeilDiv(p, q) == (p + q - 1) \div q

\* |b_i| in units of the row's scale: row (k a, k b) bounds what (a, b) does
RowReach(a, bi) == IF MaxAbs(a) = 0 THEN 0 ELSE CeilDiv(Abs(bi), MaxAbs(a))

\* A window wide enough to hold a point of every minimal face of
\* {x : Ax <= b} and one unit step beyond it.  Rows that are multiples of
\* canonical vectors bound each coordinate on its own; a row (1,..,1) lets a
\* coordinate reach n times as far.
Reach(A, b, n) ==
    LET m == SetMax({0} \cup {RowReach(A[i], b[i]) : i \in 1..Len(A)})
        separate == \A i \in 1..Len(A) : \A j, l \in 1..n :
                        (A[i][j] # 0 /\ A[i][l] # 0) => j = l
    IN  (IF separate THEN m ELSE n * m) + 1

\* x satisfies Ax <= b
SatRows(A, b, x) == \A i \in 1..Len(A) : Dot(A[i], x) <= b[i]

Feasible(A, b, n, w) == {x \in Points(n, w) : SatRows(A, b, x)}

\* ---- the LP solver (external): MixedIntegerLinearProgram.solve() ---------
\* x is a basic solution: no direction r leaves x inside the set both ways
\* while keeping at zero the coordinates x has at zero (a free variable
\* outside the basis rests at 0).
IsVertex(A, b, x) ==
    \A r \in Points(Len(x), 1) :
        \/ r = zero_vector(Len(x))
        \/ \E j \in 1..Len(x) : x[j] = 0 /\ r[j] # 0
        \/ ~SatRows(A, b, [j \in 1..Len(x) |-> x[j] + r[j]])
        \/ ~SatRows(A, b, [j \in 1..Len(x) |-> x[j] - r[j]])

\* maximize <d, x> subject to Ax <= b, x unrestricted in sign.  status is
\* "optimal" (oval the maximum), or the solver's failure, which the caller
\* sees as an exception.
LPSolve(A, b, d, n) ==
    LET F == Feasible(A, b, n, Reach(A, b, n))
    IN  IF F = {}
        THEN [status |-> "infeasible", oval |-> 0]
        ELSE IF \E r \in Points(n, 1) :
                    /\ \A i \in 1..Len(A) : Dot(A[i], r) <= 0
                    /\ Dot(d, r) > 0
        THEN [status |-> "unbounded", oval |-> 0]
        ELSE [status |-> "optimal", oval |-> SetMax({Dot(d, x) : x \in F})]

\* get_values(x) after an optimal solve: the optimal points the solver may
\* return, the basic ones when the set has a vertex
LPOptimizers(A, b, d, n, oval) ==
    LET opt == {x \in Feasible(A, b, n, Reach(A, b, n)) : Dot(d, x) = oval}
        basic == {x \in opt : IsVertex(A, b, x)}
    IN  IF basic = {} THEN opt ELSE basic

\* ---- the polytope object (external): sage Polyhedron ---------------------
\* A generator [is_equation, vector = <<beta, a_1, .., a_n>>] stands for
\* a.x + beta >= 0, or a.x + beta = 0 when it is an equation.
GenValue(vec, x) ==
    IF Len(x) = 1 THEN vec[1] + vec[2] * x[1]
    ELSE IF Len(x) = 2 THEN vec[1] + vec[2] * x[1] + vec[3] * x[2]
    ELSE vec[1] + Dot(Tail(vec), x)

Holds(g, x) ==
    IF g.is_equation THEN GenValue(g.vector, x) = 0
    ELSE GenValue(g.vector, x) >= 0

Betas(vecs) == [i \in 1..Len(vecs) |-> vecs[i][1]]

Normals(vecs) == [i \in 1..Len(vecs) |-> Tail(vecs[i])]

\* equations spanning the affine hull: an implicit equality is kept when the
\* equations kept so far do not imply it
RECURSIVE PickEquations(_, _, _, _, _)
PickEquations(ieqs, W, implicit, i, chosen) ==
    IF i > Len(ieqs) THEN chosen
    ELSE IF /\ i \in implicit
            /\ \E x \in W :
                  /\ \A c \in 1..Len(chosen) : GenValue(chosen[c], x) = 0
                  /\ GenValue(ieqs[i], x) # 0
         THEN PickEquations(ieqs, W, implicit, i + 1, Append(chosen, ieqs[i]))
         ELSE PickEquations(ieqs, W, implicit, i + 1, chosen)

\* the irredundant inequalities: a row is dropped when the others, with the
\* equations, already cut out the same set S
RECURSIVE PruneRedundant(_, _, _, _, _)
PruneRedundant(eqs, W, S, done, rest) ==
    IF rest = <<>> THEN done
    ELSE LET others == done \o Tail(rest)
             without == {x \in W :
                            /\ \A c \in 1..Len(eqs) : GenValue(eqs[c], x) = 0
                            /\ \A c \in 1..Len(others) : GenValue(others[c], x) >= 0}
         IN  IF without = S
             THEN PruneRedundant(eqs, W, S, done, Tail(rest))
             ELSE PruneRedundant(eqs, W, S, Append(done, Head(rest)), Tail(rest))

\* Polyhedron(ieqs = ieqs, base_ring = .., ambient_dim = n): the minimal
\* H-representation the backend keeps.  The sign of an equation (sgn) and the
\* scaling of the generators (k) are the backend's choice.
Polyhedron(ieqs, base_ring, n, sgn, k) ==
    LET W == Points(n, Reach(Normals(ieqs), Betas(ieqs), n))
        S == {x \in W : \A i \in 1..Len(ieqs) : GenValue(ieqs[i], x) >= 0}
        implicit == {i \in 1..Len(ieqs) : \A x \in S : GenValue(ieqs[i], x) = 0}
        eqs == PickEquations(ieqs, W, implicit, 1, <<>>)
        free == SelectSeq([i \in 1..Len(ieqs) |-> <<i, ieqs[i]>>],
                          LAMBDA p : p[1] \notin implicit)
        facets == PruneRedundant(eqs, W, S, <<>>, [i \in 1..Len(free) |-> free[i][2]])
    IN  [base_ring |-> base_ring,
         n |-> n,
         Hrep |->
            IF S = {}
            THEN << [is_equation |-> TRUE, vector |-> <<-1>> \o zero_vector(n)] >>
            ELSE [i \in 1..Len(eqs) |->
                     [is_equation |-> TRUE, vector |-> Scale(sgn * k, eqs[i])]]
                 \o [i \in 1..Len(facets) |->
                     [is_equation |-> FALSE, vector |-> Scale(k, facets[i])]]]

\* the points of the window that belong to P
PolyPoints(P, w) == {x \in Points(P.n, w) : \A i \in 1..Len(P.Hrep) : Holds(P.Hrep[i], x)}

HrepReach(P) ==
    LET vecs == [i \in 1..Len(P.Hrep) |-> P.Hrep[i].vector]
    IN  Reach(Normals(vecs), Betas(vecs), P.n)

\* P.is_empty()
is_empty(P) == PolyPoints(P, HrepReach(P)) = {}

\* P.vertices_list(), as a set
vertices_list(P) ==
    LET S == PolyPoints(P, HrepReach(P))
    IN  {x \in S : \A r \in Points(P.n, 1) :
                      r = zero_vector(P.n)
                      \/ [j \in 1..P.n |-> x[j] + r[j]] \notin S
                      \/ [j \in 1..P.n |-> x[j] - r[j]] \notin S}

\* ---- polyhedron_from_Hrep ------------------------------------------------
\* ieqs_list: row i is [b_i, -A_i1, .., -A_in]
ieqs_list(A, b) == [i \in 1..Len(A) |-> <<b[i]>> \o Neg(A[i])]

polyhedron_from_Hrep(A, b, n, base_ring, sgn, k) ==
    Polyhedron(ieqs_list(A, b), base_ring, n, sgn, k)

\* the shapes in which a caller passes A and b
Shapes == {"matrix", "numpy.ndarray"}

\* the rings a caller may name; only QQ and RDF are supported
RingArgs == Rings \cup {"ZZ"}

\* What becomes of the entries on their way to ieqs_list.  An array is cast
\* entry by entry into base_ring and then handed to copy(), a name the module
\* never imports.  A matrix over another ring meets A.change_ring(base_ring),
\* whose result is dropped: A and b stay over the ring they came with.
\* ring is the ring of the entries of ieqs_list.
HrepEntries(shape, ring, base_ring) ==
    IF base_ring \notin Rings
    THEN [kind |-> "raise", exc |-> "ValueError", ring |-> "none"]
    ELSE IF shape = "numpy.ndarray"
    THEN [kind |-> "raise", exc |-> "NameError", ring |-> "none"]
    ELSE [kind |-> "value", exc |-> "", ring |-> ring]

\* ---- polyhedron_to_Hrep --------------------------------------------------
\* default mode: the rows appended for one generator
RowsOfGenerator(g) ==
    LET pi_vec == g.vector
    IN  IF g.is_equation
        THEN [A |-> << Neg(Tail(pi_vec)), Tail(pi_vec) >>,
              b |-> << pi_vec[1], pi_vec[1] >>]
        ELSE [A |-> << Neg(Tail(pi_vec)) >>, b |-> << pi_vec[1] >>]

RECURSIVE HrepLoop(_)
HrepLoop(gens) ==
    IF gens = <<>> THEN [A |-> <<>>, b |-> <<>>]
    ELSE LET first == RowsOfGenerator(Head(gens))
             others == HrepLoop(Tail(gens))
         IN  [A |-> first.A \o others.A, b |-> first.b \o others.b]

\* separate mode: the generators of one kind, each as (-a, beta)
KindRows(gens, eq) ==
    LET sel == SelectSeq(gens, LAMBDA g : g.is_equation = eq)
    IN  [A |-> [i \in 1..Len(sel) |-> Neg(Tail(sel[i].vector))],
         b |-> [i \in 1..Len(sel) |-> sel[i].vector[1]]]

polyhedron_to_Hrep(P, separate_equality_constraints) ==
    IF ~separate_equality_constraints
    THEN LET r == HrepLoop(P.Hrep)
         IN  [A |-> r.A, b |-> r.b, Aeq |-> <<>>, beq |-> <<>>,
              n |-> P.n, ring |-> "RDF"]
    ELSE LET r == KindRows(P.Hrep, FALSE)
             e == KindRows(P.Hrep, TRUE)
         IN  [A |-> r.A, b |-> r.b, Aeq |-> e.A, beq |-> e.b,
              n |-> P.n, ring |-> "RDF"]

\* ---- support_function ----------------------------------------------------
\* the argument P of support_function, radius, chebyshev_center: a list
\* [A, b] or a Polyhedron object
NoObject == [base_ring |-> "none", n |-> 0, Hrep |-> <<>>]

ListArg(Ab) == [type |-> "list", A |-> Ab.A, b |-> Ab.b, n |-> Ab.n, obj |-> NoObject]

ObjectArg(P) == [type |-> "Polyhedron", A |-> <<>>, b |-> <<>>, n |-> P.n, obj |-> P]

\* what the call did with the LP interface
NoLP == [models |-> 0, constraints |-> 0, solves |-> 0]

\* the constraint rows read off the generators of an object: every
\* generator, equation or not, becomes the row (-a, beta)
GeneratorRows(P) ==
    [A |-> [i \in 1..Len(P.Hrep) |-> Neg(Tail(P.Hrep[i].vector))],
     b |-> [i \in 1..Len(P.Hrep) |-> P.Hrep[i].vector[1]]]

\* s_LP = MixedIntegerLinearProgram(..); set_objective; add_constraint(A*x <= b);
\* solve(): one model, one add_constraint call, one solve
SupportLP(A, b, d, n) ==
    LET r == LPSolve(A, b, d, n)
        lp == [models |-> 1, constraints |-> 1, solves |-> 1]
    IN  IF r.status = "optimal"
        THEN [kind |-> "value", val |-> r.oval, exc |-> "", lp |-> lp]
        ELSE [kind |-> "raise", val |-> 0, exc |-> "MIPSolverException", lp |-> lp]

\* the rows (A, b) support_function hands to the LP
SupportRows(P) ==
    IF P.type = "list" THEN [A |-> P.A, b |-> P.b, n |-> P.n]
    ELSE LET g == GeneratorRows(P.obj)
         IN  [A |-> g.A, b |-> g.b, n |-> Len(P.obj.Hrep[1].vector) - 1]

\* variant: the empty object answers with the sentinel -1
support_function_sentinel(P, d) ==
    IF P.type = "list"
    THEN SupportLP(P.A, P.b, d, P.n)
    ELSE IF is_empty(P.obj)
    THEN [kind |-> "value", val |-> -1, exc |-> "", lp |-> NoLP]
    ELSE IF Len(P.obj.Hrep) = 0
    THEN [kind |-> "raise", val |-> 0, exc |-> "IndexError", lp |-> NoLP]
    ELSE LET g == SupportRows(P)
         IN  SupportLP(g.A, g.b, d, g.n)

\* variant: no test of P.is_empty() before the LP is formulated
support_function_no_shortcut(P, d) ==
    IF P.type = "list"
    THEN SupportLP(P.A, P.b, d, P.n)
    ELSE IF Len(P.obj.Hrep) = 0
    THEN [kind |-> "raise", val |-> 0, exc |-> "IndexError", lp |-> NoLP]
    ELSE LET g == SupportRows(P)
         IN  SupportLP(g.A, g.b, d, g.n)

support_function(P, d) ==
    IF P.type = "list"
    THEN SupportLP(P.A, P.b, d, P.n)
    ELSE IF is_empty(P.obj)
    THEN [kind |-> "value", val |-> 0, exc |-> "", lp |-> NoLP]
    ELSE IF Len(P.obj.Hrep) = 0
    THEN [kind |-> "raise", val |-> 0, exc |-> "IndexError", lp |-> NoLP]
    ELSE LET g == SupportRows(P)
         IN  SupportLP(g.A, g.b, d, g.n)

\* xopt = s_LP.get_values(x), returned with oval when return_xopt is True
support_function_xopt(P, d, oval) ==
    LET g == SupportRows(P)
    IN  LPOptimizers(g.A, g.b, d, g.n, oval)

\* ---- chebyshev_center -----------------------------------------------------
\* sqrt(v.dot_product(v)); the rows drawn have an integer norm or none
IsSquare(q) == \E t \in 0..q : t * t = q

Norm(v) == CHOOSE t \in 0..Dot(v, v) : t * t = Dot(v, v)

HasNorms(A) == \A i \in 1..Len(A) : IsSquare(Dot(A[i], A[i]))

\* an optional argument: None, or a value
None == [some |-> FALSE, v |-> <<>>]

Some(v) == [some |-> TRUE, v |-> v]

\* how chebyshev_center reads its arguments (P, A, b): an object alone, a
\* pair given positionally (it arrives as P and A, and is moved to A and b),
\* or a pair given as A, b.  A matrix carries its column count n.
ChebyshevArgs(Parg, Aarg, barg) ==
    IF Parg.some
    THEN IF ~Aarg.some /\ ~barg.some
         THEN [got_P |-> TRUE, got_Ab |-> FALSE, P |-> Parg.v, A |-> <<>>, b |-> <<>>]
         ELSE IF Aarg.some /\ ~barg.some
         THEN [got_P |-> FALSE, got_Ab |-> TRUE, P |-> NoObject, A |-> Parg.v, b |-> Aarg.v]
         ELSE [got_P |-> FALSE, got_Ab |-> FALSE, P |-> NoObject, A |-> <<>>, b |-> <<>>]
    ELSE [got_P |-> FALSE, got_Ab |-> Aarg.some /\ barg.some, P |-> NoObject,
          A |-> Aarg.v, b |-> barg.v]

\* the rows (A, b) the LP is built from
ChebyshevRows(a) ==
    IF a.got_P
    THEN LET h == polyhedron_to_Hrep(a.P, FALSE)
         IN  [A |-> h.A, b |-> h.b, n |-> h.n, base_ring |-> h.ring]
    ELSE [A |-> a.A.rows, b |-> a.b, n |-> a.A.ncols, base_ring |-> a.A.base_ring]

\* The LP over (x_1..x_m, r): maximize r subject to v_i.x + |v_i| r <= b_i.
\* Its basic solutions have halves for coordinates, so it is solved over
\* (X, R) = (2x, 2r): v_i.X + |v_i| R <= 2 b_i.
ChebyshevLPRows(A) == [i \in 1..Len(A) |-> A[i] \o << Norm(A[i]) >>]

ChebyshevLPBound(b) == [i \in 1..Len(b) |-> 2 * b[i]]

\* the centers X that leave room for the radius R.  Every row is
\* k * (+-e_j), so with wR = max |b2_i| / k a basic center has |X_j| <= wR
\* when R >= 0 (it is a point of the set) and |X_j| <= wR + |R| otherwise.
RoomWindow(m, wR, R) == Points(m, IF R >= 0 THEN wR ELSE wR - R)

RoomFor(A, nrm, b2, m, wR, R) ==
    {X \in RoomWindow(m, wR, R) :
        \A i \in 1..Len(A) : Dot(A[i], X) + nrm[i] * R <= b2[i]}

HasRoom(A, nrm, b2, m, wR, R) ==
    \E X \in RoomWindow(m, wR, R) :
        \A i \in 1..Len(A) : Dot(A[i], X) + nrm[i] * R <= b2[i]

\* p.solve() and p.get_values(x): the largest R some center leaves room for
\* (a bounded optimum has |R| <= wR; room for R is room for every smaller R,
\* so the optimum is non-negative exactly when there is room for 0),
\* and the centers the solver may return with it (the basic ones).
ChebyshevLP(A, b, m) ==
    LET LA == ChebyshevLPRows(A)
        nrm == [i \in 1..Len(A) |-> Norm(A[i])]
        b2 == ChebyshevLPBound(b)
        wR == SetMax({0} \cup {RowReach(A[i], b2[i]) : i \in 1..Len(A)})
    IN  IF \E z \in Points(m + 1, 1) :
              /\ z[m + 1] > 0
              /\ \A i \in 1..Len(LA) : Dot(LA[i], z) <= 0
        THEN [status |-> "unbounded", r2 |-> 0, centers |-> {}]
        ELSE LET candidates == IF HasRoom(A, nrm, b2, m, wR, 0) THEN 0..wR
                               ELSE (-wR)..(-1)
                 best == CHOOSE R \in candidates :
                             /\ HasRoom(A, nrm, b2, m, wR, R)
                             /\ R < wR => ~HasRoom(A, nrm, b2, m, wR, R + 1)
                 room == RoomFor(A, nrm, b2, m, wR, best)
                 shrunk == [i \in 1..Len(A) |-> b2[i] - nrm[i] * best]
                 basic == {X \in room : IsVertex(A, shrunk, X)}
             IN  [status |-> "optimal", r2 |-> best,
                  centers |-> IF basic = {} THEN room ELSE basic]

\* variant: the row count of A is not compared with the length of b; the
\* constraint loop reads b[i] for every row of A
chebyshev_center_unchecked(Parg, Aarg, barg) ==
    LET a == ChebyshevArgs(Parg, Aarg, barg) IN
    IF ~(a.got_P \/ a.got_Ab)
    THEN [kind |-> "raise", exc |-> "ValueError", centers |-> {}, r2 |-> 0, ring |-> "none", lp |-> NoLP]
    ELSE LET g == ChebyshevRows(a)
             n == Len(g.A)
             m == g.n
         IN  IF n > Len(g.b)
             THEN [kind |-> "raise", exc |-> "IndexError", centers |-> {}, r2 |-> 0,
                   ring |-> g.base_ring,
                   lp |-> [models |-> 1, constraints |-> Len(g.b), solves |-> 0]]
             ELSE LET sol == ChebyshevLP(g.A, SubSeq(g.b, 1, n), m)
                      lp == [models |-> 1, constraints |-> n, solves |-> 1]
                  IN  IF sol.status # "optimal"
                      THEN [kind |-> "raise", exc |-> "MIPSolverException",
                            centers |-> {}, r2 |-> 0, ring |-> g.base_ring, lp |-> lp]
                      ELSE [kind |-> "value", exc |-> "", centers |-> sol.centers,
                            r2 |-> sol.r2, ring |-> g.base_ring, lp |-> lp]

\* chebyshev_center(..): kind "value" with the centers the solver may return
\* (each as the vector 2c), the radius (as 2r) and the ring the center is
\* cast to, base_ring = A.base_ring(); "empty" for the [] of a row-count
\* mismatch; "raise" for a solver failure.
chebyshev_center(Parg, Aarg, barg) ==
    LET a == ChebyshevArgs(Parg, Aarg, barg) IN
    IF ~(a.got_P \/ a.got_Ab)
    THEN [kind |-> "raise", exc |-> "ValueError", centers |-> {}, r2 |-> 0, ring |-> "none", lp |-> NoLP]
    ELSE LET g == ChebyshevRows(a)
             n == Len(g.A)
             m == g.n
         IN  IF n # Len(g.b)
             THEN [kind |-> "empty", exc |-> "", centers |-> {}, r2 |-> 0,
                   ring |-> g.base_ring,
                   lp |-> [models |-> 1, constraints |-> 0, solves |-> 0]]
             ELSE LET sol == ChebyshevLP(g.A, g.b, m)
                      lp == [models |-> 1, constraints |-> n, solves |-> 1]
                  IN  IF sol.status # "optimal"
                      THEN [kind |-> "raise", exc |-> "MIPSolverException",
                            centers |-> {}, r2 |-> 0, ring |-> g.base_ring, lp |-> lp]
                      ELSE [kind |-> "value", exc |-> "", centers |-> sol.centers,
                            r2 |-> sol.r2, ring |-> g.base_ring, lp |-> lp]

\* ---- radius ----------------------------------------------------------------
\* the loop over the canonical directions: r after axes i..n, from r so far
RECURSIVE RadiusLoop(_, _, _)
RadiusLoop(P, i, r) ==
    IF i > P.n THEN [kind |-> "value", val |-> r, exc |-> ""]
    ELSE LET plus == support_function(P, UnitVec(P.n, i))
             minus == support_function(P, Neg(UnitVec(P.n, i)))
         IN  IF plus.kind = "raise" THEN [kind |-> "raise", val |-> 0, exc |-> plus.exc]
             ELSE IF minus.kind = "raise" THEN [kind |-> "raise", val |-> 0, exc |-> minus.exc]
             ELSE LET r1 == IF Abs(plus.val) >= r THEN Abs(plus.val) ELSE r
                      r2 == IF Abs(minus.val) >= r1 THEN Abs(minus.val) ELSE r1
                  IN  RadiusLoop(P, i + 1, r2)

\* variant: only the directions +e_i are evaluated
RECURSIVE RadiusLoopPlus(_, _, _)
RadiusLoopPlus(P, i, r) ==
    IF i > P.n THEN [kind |-> "value", val |-> r, exc |-> ""]
    ELSE LET plus == support_function(P, UnitVec(P.n, i))
         IN  IF plus.kind = "raise" THEN [kind |-> "raise", val |-> 0, exc |-> plus.exc]
             ELSE RadiusLoopPlus(P, i + 1, IF Abs(plus.val) >= r THEN Abs(plus.val) ELSE r)

radius_plus_only(P) ==
    IF P.type = "list"
    THEN RadiusLoopPlus(ListArg([A |-> P.A, b |-> P.b, n |-> P.n]), 1, 0)
    ELSE [kind |-> "None", val |-> 0, exc |-> ""]

\* radius(P): only the list branch exists; any other P falls off the end of
\* the function, which returns None
radius(P) ==
    IF P.type = "list"
    THEN RadiusLoop(ListArg([A |-> P.A, b |-> P.b, n |-> P.n]), 1, 0)
    ELSE [kind |-> "None", val |-> 0, exc |-> ""]

\* ---- diameter ----------------------------------------------------------------
\* (vector(v_i) - vector(v_j)).norm(p = oo)
SupDist(x, y) == SetMax({Abs(x[j] - y[j]) : j \in 1..Len(x)})

\* diameter_vertex_enumeration(P) with the default p = oo
diameter_vertex_enumeration(P) ==
    LET vlist == vertices_list(P)
    IN  SetMax({0} \cup {SupDist(x, y) : x \in vlist, y \in vlist})

\* variant: l_j is taken as rho(-e_j), the sign is not flipped back
diameter_support_function_unsigned(A, b, n) ==
    LET pair == ListArg([A |-> A, b |-> b, n |-> n])
        lo == [j \in 1..n |-> support_function(pair, Neg(UnitVec(n, j)))]
        up == [j \in 1..n |-> support_function(pair, UnitVec(n, j))]
    IN  IF \E j \in 1..n : lo[j].kind = "raise" \/ up[j].kind = "raise"
        THEN [kind |-> "raise", diam |-> 0, u |-> <<>>, l |-> <<>>]
        ELSE LET l == [j \in 1..n |-> lo[j].val]
                 u == [j \in 1..n |-> up[j].val]
             IN  [kind |-> "value", diam |-> SetMax({u[j] - l[j] : j \in 1..n}),
                  u |-> u, l |-> l]

\* diameter_support_function(A, b): (diam, u, l)
diameter_support_function(A, b, n) ==
    LET pair == ListArg([A |-> A, b |-> b, n |-> n])
        lo == [j \in 1..n |-> support_function(pair, Neg(UnitVec(n, j)))]
        up == [j \in 1..n |-> support_function(pair, UnitVec(n, j))]
    IN  IF \E j \in 1..n : lo[j].kind = "raise" \/ up[j].kind = "raise"
        THEN [kind |-> "raise", diam |-> 0, u |-> <<>>, l |-> <<>>]
        ELSE LET l == [j \in 1..n |-> -lo[j].val]
                 u == [j \in 1..n |-> up[j].val]
             IN  [kind |-> "value", diam |-> SetMax({u[j] - l[j] : j \in 1..n}),
                  u |-> u, l |-> l]

\* ---- BoxInfty ----------------------------------------------------------------
\* rows 2i-1, 2i of the box: +e_i with the upper bound, -e_i with minus the lower
BoxRows(ndim, upper, lower) ==
    [A |-> [c \in 1..(2 * ndim) |->
                IF c % 2 = 1 THEN UnitVec(ndim, (c + 1) \div 2)
                ELSE Neg(UnitVec(ndim, c \div 2))],
     b |-> [c \in 1..(2 * ndim) |->
                IF c % 2 = 1 THEN upper[(c + 1) \div 2] ELSE -(lower[c \div 2])],
     n |-> ndim]

\* variant: the internal bound of the center and radius form is written
\* without its minus sign, b = center_i - radius
BoxInfty_unsigned(lengths, center, radius_arg, base_ring) ==
    LET positional == lengths.some /\ center.some /\ ~radius_arg.some
        got_lengths == lengths.some /\ ~center.some /\ ~radius_arg.some
        got_center_and_radius ==
            IF lengths.some THEN positional ELSE center.some /\ radius_arg.some
        c == IF positional THEN lengths.v ELSE center.v
        r == IF positional THEN center.v ELSE radius_arg.v
    IN  IF got_center_and_radius
        THEN [kind |-> "value",
              pair |-> BoxRows(Len(c), [i \in 1..Len(c) |-> c[i] + r],
                               [i \in 1..Len(c) |-> -(c[i] - r)])
                       @@ [ring |-> base_ring]]
        ELSE IF got_lengths
        THEN [kind |-> "value",
              pair |-> BoxRows(Len(lengths.v), [i \in 1..Len(lengths.v) |-> lengths.v[i][2]],
                               [i \in 1..Len(lengths.v) |-> lengths.v[i][1]])
                       @@ [ring |-> base_ring]]
        ELSE [kind |-> "raise", pair |-> [A |-> <<>>, b |-> <<>>, n |-> 0, ring |-> base_ring]]

\* BoxInfty(lengths, center, radius, base_ring, return_HSpaceRep = True):
\* the pair [A, b], or the ValueError of an argument list it cannot read
BoxInfty(lengths, center, radius_arg, base_ring) ==
    LET positional == lengths.some /\ center.some /\ ~radius_arg.some
        got_lengths == lengths.some /\ ~center.some /\ ~radius_arg.some
        got_center_and_radius ==
            IF lengths.some THEN positional ELSE center.some /\ radius_arg.some
        c == IF positional THEN lengths.v ELSE center.v
        r == IF positional THEN center.v ELSE radius_arg.v
    IN  IF got_center_and_radius
        THEN [kind |-> "value",
              pair |-> BoxRows(Len(c), [i \in 1..Len(c) |-> c[i] + r],
                               [i \in 1..Len(c) |-> c[i] - r])
                       @@ [ring |-> base_ring]]
        ELSE IF got_lengths
        THEN [kind |-> "value",
              pair |-> BoxRows(Len(lengths.v), [i \in 1..Len(lengths.v) |-> lengths.v[i][2]],
                               [i \in 1..Len(lengths.v) |-> lengths.v[i][1]])
                       @@ [ring |-> base_ring]]
        ELSE [kind |-> "raise", pair |-> [A |-> <<>>, b |-> <<>>, n |-> 0, ring |-> base_ring]]

\* ---- the state ----------------------------------------------------------
VARIABLES
    Ab,     \* the pair [A, b] the caller holds
    P,      \* the Polyhedron object the caller holds, or NoObject
    box,    \* the center and radius the pair was built from by BoxInfty
    call    \* the last call: its function, arguments and result

vars == <<Ab, P, box, call>>

NoBox == [center |-> <<>>, radius |-> 0, made |-> FALSE]

\* the caller holds no pair yet
NoPair == [A |-> <<>>, b |-> <<>>, n |-> 0, ring |-> "none"]

NoCall == [fn |-> "none"]

\* the coefficient vectors drawn: e_1, -e_1, .., e_n, -e_n, and for n >= 2
\* also (1,..,1) and -(1,..,1)
CoefSeq(n) ==
    [k \in 1..(2 * n) |->
        IF k % 2 = 1 THEN UnitVec(n, (k + 1) \div 2) ELSE Neg(UnitVec(n, k \div 2))]
    \o (IF n >= 2 THEN << Ones(n), Neg(Ones(n)) >> ELSE <<>>)

NumB == Cardinality(BValues)

NumRows(n) == Len(CoefSeq(n)) * NumB

RowA(n, r) == CoefSeq(n)[((r - 1) \div NumB) + 1]

RowB(r) == SetMin(BValues) + ((r - 1) % NumB)

\* the pairs a caller may hand in: m distinct rows of the family
InputPairs ==
    UNION {
        {[A |-> [i \in 1..m |-> RowA(n, s[i])], b |-> [i \in 1..m |-> RowB(s[i])],
          n |-> n, ring |-> "QQ"] :
            s \in {t \in [1..m -> 1..NumRows(n)] : \A i \in 1..(m - 1) : t[i] < t[i + 1]}}
        : m \in RowCounts, n \in Dims}

Directions(n) == [1..n -> DValues]

\* the caller starts with a pair of its own, or with none and asks BoxInfty
\* for one
Init ==
    /\ Ab \in InputPairs \cup {NoPair}
    /\ P = NoObject
    /\ box = NoBox
    /\ call = NoCall

\* P = polyhedron_from_Hrep(A, b, base_ring)
CallPolyhedronFromHrep ==
    \E base_ring \in RingArgs, shape \in Shapes, sgn \in {1, -1}, k \in Scales :
        /\ call = NoCall
        /\ Ab # NoPair
        /\ P = NoObject
        /\ LET e == HrepEntries(shape, Ab.ring, base_ring)
           IN  /\ P' = IF e.kind = "value"
                       THEN polyhedron_from_Hrep(Ab.A, Ab.b, Ab.n, base_ring, sgn, k)
                       ELSE P
               /\ call' = [fn |-> "polyhedron_from_Hrep",
                           args |-> [base_ring |-> base_ring, shape |-> shape],
                           ret |-> [kind |-> e.kind, exc |-> e.exc, ieqs_ring |-> e.ring]]
        /\ UNCHANGED <<Ab, box>>

\* polyhedron_to_Hrep(P, separate_equality_constraints)
CallPolyhedronToHrep ==
    \E sep \in BOOLEAN :
        /\ call = NoCall
        /\ P # NoObject
        /\ call' = [fn |-> "polyhedron_to_Hrep",
                    args |-> [separate_equality_constraints |-> sep],
                    ret |-> polyhedron_to_Hrep(P, sep)]
        /\ UNCHANGED <<Ab, P, box>>

\* the argument the caller passes: the pair it holds or the object it holds
Arg(form) == IF form = "list" THEN ListArg(Ab) ELSE ObjectArg(P)

Forms ==
    (IF Ab = NoPair THEN {} ELSE {"list"}) \cup (IF P = NoObject THEN {} ELSE {"Polyhedron"})

\* support_function(P, d, return_xopt = ..) on the pair or on the object
CallSupportFunction ==
    \E form \in Forms, d \in Directions(Ab.n) :
        /\ call = NoCall
        /\ LET r == support_function(Arg(form), d)
           IN  \E return_xopt \in BOOLEAN :
               \E x \in (IF return_xopt /\ r.kind = "value" /\ r.lp.solves = 1
                         THEN support_function_xopt(Arg(form), d, r.val)
                         ELSE {<<>>}) :
                   call' = [fn |-> "support_function",
                            args |-> [form |-> form, d |-> d, return_xopt |-> return_xopt],
                            ret |-> [kind |-> r.kind, val |-> r.val, xopt |-> x,
                                     exc |-> r.exc, lp |-> r.lp]]
        /\ UNCHANGED <<Ab, P, box>>

\* the matrix A of the pair, as the value passed for a matrix argument
Matrix(pair) == [rows |-> pair.A, ncols |-> pair.n, base_ring |-> pair.ring]

\* the vectors b a caller may pass with the matrix A of the pair: the b of
\* the pair, or one with an entry less or an entry more
BArgs(pair) ==
    {pair.b, SubSeq(pair.b, 1, Len(pair.b) - 1), Append(pair.b, 0)}

\* chebyshev_center(P), chebyshev_center(A, b) or chebyshev_center(A = A, b = b)
CallChebyshevCenter ==
    \E form \in Forms \cup (IF Ab = NoPair THEN {} ELSE {"keywords"}) :
    \E bvec \in (IF form = "Polyhedron" THEN {<<>>} ELSE BArgs(Ab)) :
        /\ call = NoCall
        /\ LET Parg == IF form = "Polyhedron" THEN Some(P)
                       ELSE IF form = "list" THEN Some(Matrix(Ab)) ELSE None
               Aarg == IF form = "Polyhedron" THEN None
                       ELSE IF form = "list" THEN Some(bvec) ELSE Some(Matrix(Ab))
               barg == IF form = "keywords" THEN Some(bvec) ELSE None
               a == ChebyshevArgs(Parg, Aarg, barg)
           IN  /\ HasNorms(ChebyshevRows(a).A)
               /\ LET r == chebyshev_center(Parg, Aarg, barg)
                  IN  \E c \in (IF r.kind = "value" THEN r.centers ELSE {<<>>}) :
                         call' = [fn |-> "chebyshev_center",
                                  args |-> [form |-> form, b |-> bvec],
                                  ret |-> [kind |-> r.kind, center2 |-> c, r2 |-> r.r2,
                                           ring |-> r.ring, exc |-> r.exc, lp |-> r.lp]]
        /\ UNCHANGED <<Ab, P, box>>

\* radius(P) on the pair or on the object
CallRadius ==
    \E form \in Forms :
        /\ call = NoCall
        /\ call' = [fn |-> "radius", args |-> [form |-> form], ret |-> radius(Arg(form))]
        /\ UNCHANGED <<Ab, P, box>>

\* diameter_vertex_enumeration(P)
CallDiameterVertexEnumeration ==
    /\ call = NoCall
    /\ P # NoObject
    /\ call' = [fn |-> "diameter_vertex_enumeration",
                ret |-> [kind |-> "value", diam |-> diameter_vertex_enumeration(P)]]
    /\ UNCHANGED <<Ab, P, box>>

\* diameter_support_function(A, b)
CallDiameterSupportFunction ==
    /\ call = NoCall
    /\ Ab # NoPair
    /\ call' = [fn |-> "diameter_support_function",
                ret |-> diameter_support_function(Ab.A, Ab.b, Ab.n)]
    /\ UNCHANGED <<Ab, P, box>>

\* BoxInfty(center = c, radius = r), BoxInfty(c, r) or BoxInfty(lengths = ..),
\* returning the pair or the object built from it
CallBoxInfty ==
    \E n \in Dims, r \in 0..MaxRadius, base_ring \in Rings,
       style \in {"keywords", "positional", "lengths"}, return_HSpaceRep \in BOOLEAN,
       sgn \in {1, -1}, k \in Scales :
    \E c \in [1..n -> CenterValues] :
        /\ call = NoCall
        /\ Ab = NoPair
        /\ LET lengths == IF style = "lengths" THEN Some([i \in 1..n |-> <<c[i] - r, c[i] + r>>])
                          ELSE IF style = "positional" THEN Some(c) ELSE None
               center == IF style = "keywords" THEN Some(c)
                         ELSE IF style = "positional" THEN Some(r) ELSE None
               radius_arg == IF style = "keywords" THEN Some(r) ELSE None
               res == BoxInfty(lengths, center, radius_arg, base_ring)
           IN  /\ res.kind = "value"
               /\ Ab' = res.pair
               /\ P' = IF return_HSpaceRep THEN NoObject
                       ELSE polyhedron_from_Hrep(res.pair.A, res.pair.b, res.pair.n,
                                                 base_ring, sgn, k)
               /\ box' = [center |-> c, radius |-> r, made |-> TRUE]
               /\ call' = [fn |-> "BoxInfty",
                           args |-> [style |-> style, return_HSpaceRep |-> return_HSpaceRep],
                           ret |-> [kind |-> "value"]]

\* the call returns to the caller, who may call again (the module is
\* synchronous: one call at a time)
Return ==
    /\ call # NoCall
    /\ call' = NoCall
    /\ UNCHANGED <<Ab, P, box>>

Next ==
    \/ Return
    \/ CallBoxInfty
    \/ CallPolyhedronFromHrep
    \/ CallPolyhedronToHrep
    \/ CallSupportFunction
    \/ CallChebyshevCenter
    \/ CallRadius
    \/ CallDiameterVertexEnumeration
    \/ CallDiameterSupportFunction

Spec == Init /\ [][Next]_vars

\* ---- what the claims speak of ---------------------------------------------
\* x belongs to the polytope P: every generator holds at x
InPoly(obj, x) == \A i \in 1..Len(obj.Hrep) : Holds(obj.Hrep[i], x)

\* the test points: a window holding every set that is compared
TestPoints ==
    Points(Ab.n, SetMax({Reach(Ab.A, Ab.b, Ab.n)}
                        \cup (IF P = NoObject THEN {} ELSE {HrepReach(P)})))

\* no row of the pair can be dropped without changing {x : Ax <= b}
NoRedundantRows(pair) ==
    \A i \in 1..Len(pair.A) :
        \E x \in Points(pair.n, Reach(pair.A, pair.b, pair.n)) :
            /\ Dot(pair.A[i], x) > pair.b[i]
            /\ \A k \in 1..Len(pair.A) : k # i => Dot(pair.A[k], x) <= pair.b[k]

\* {x : Ax <= b} recedes in no direction
BoundedRows(A, b, n) ==
    \A r \in Points(n, 1) :
        r = zero_vector(n) \/ \E i \in 1..Len(A) : Dot(A[i], r) > 0

NonEmptyRows(A, b, n) == Feasible(A, b, n, Reach(A, b, n)) # {}

\* the pair describes a non-empty bounded polytope
IsPolytope(pair) ==
    /\ pair # NoPair
    /\ NonEmptyRows(pair.A, pair.b, pair.n)
    /\ BoundedRows(pair.A, pair.b, pair.n)

\* every row is a multiple of a canonical vector
AxisAligned(pair) ==
    \A i \in 1..Len(pair.A) : Cardinality({j \in 1..pair.n : pair.A[i][j] # 0}) = 1

\* the object was built from the pair the caller holds
ObjectOfPair ==
    /\ P # NoObject
    /\ \A x \in TestPoints : InPoly(P, x) <=> SatRows(Ab.A, Ab.b, x)

ModelInv == P # NoObject => ObjectOfPair

DefaultHrepCall ==
    /\ call.fn = "polyhedron_to_Hrep"
    /\ ~call.args.separate_equality_constraints

\* (C1) Round trip.  For a pair (A, b) without redundant rows,
\* polyhedron_to_Hrep(polyhedron_from_Hrep(A, b)) in default mode returns
\* (A', b') with {x : A'x <= b'} = {x : Ax <= b}, also when the backend
\* reports two opposing rows as one equation with a non-zero constant term.
C1_RoundTrip ==
    (DefaultHrepCall /\ NoRedundantRows(Ab)) =>
        \A x \in Points(Ab.n, SetMax({Reach(Ab.A, Ab.b, Ab.n),
                                      Reach(call.ret.A, call.ret.b, Ab.n)})) :
            SatRows(call.ret.A, call.ret.b, x) <=> SatRows(Ab.A, Ab.b, x)

\* (C2) Default mode is lossless: the two rows written for an equation
\* a.x + beta = 0 hold exactly where the equation does, so {x : Ax <= b} is
\* the polytope, and is the set {x : Ax <= b, Aeq x = beq} of separate mode.
C2_DefaultModeLossless ==
    DefaultHrepCall =>
        LET sep == polyhedron_to_Hrep(P, TRUE)
        IN  \A x \in Points(P.n, SetMax({HrepReach(P),
                                         Reach(call.ret.A, call.ret.b, P.n)})) :
                /\ SatRows(call.ret.A, call.ret.b, x) <=> InPoly(P, x)
                /\ SatRows(call.ret.A, call.ret.b, x) <=>
                      /\ SatRows(sep.A, sep.b, x)
                      /\ \A i \in 1..Len(sep.Aeq) : Dot(sep.Aeq[i], x) = sep.beq[i]

ObjectSupportCall ==
    /\ call.fn = "support_function"
    /\ call.args.form = "Polyhedron"

\* (C3) For a non-empty polytope object P the constraint system of
\* support_function has exactly P as its feasible set, and the call returns
\* what support_function([A, b], d) returns for a pair [A, b] of the same set.
C3_ObjectSupportIsPairSupport ==
    (ObjectSupportCall /\ ~is_empty(P)) =>
        LET rows == SupportRows(ObjectArg(P))
            onPair == support_function(ListArg(Ab), call.args.d)
        IN  /\ \A x \in Points(P.n, SetMax({HrepReach(P), Reach(rows.A, rows.b, P.n)})) :
                  SatRows(rows.A, rows.b, x) <=> InPoly(P, x)
            /\ call.ret.kind = onPair.kind
            /\ call.ret.val = onPair.val

\* the call passed a matrix A and a vector b of another length than A has rows
ChebyshevMismatch ==
    /\ call.fn = "chebyshev_center"
    /\ call.args.form # "Polyhedron"
    /\ Len(call.args.b) # Len(Ab.A)

\* the rows chebyshev_center was called on, and whether 2c belongs to P
ChebyshevCallRows ==
    IF call.args.form = "Polyhedron"
    THEN LET h == polyhedron_to_Hrep(P, FALSE) IN [A |-> h.A, b |-> h.b, n |-> h.n]
    ELSE [A |-> Ab.A, b |-> Ab.b, n |-> Ab.n]

\* the point c, given as c2 = 2c, satisfies Ax <= b
HalfSatRows(A, b, c2) == \A i \in 1..Len(A) : Dot(A[i], c2) <= 2 * b[i]

\* the point c, given as c2 = 2c, satisfies every generator of the object
HalfInPoly(obj, c2) ==
    \A i \in 1..Len(obj.Hrep) :
        LET v == 2 * obj.Hrep[i].vector[1] + Dot(Tail(obj.Hrep[i].vector), c2)
        IN  IF obj.Hrep[i].is_equation THEN v = 0 ELSE v >= 0

\* (C4) For a non-empty bounded polytope, given as an object or as a pair,
\* chebyshev_center returns a point c of the polytope (A c <= b, and every
\* equation of P holds at c) that maximizes r subject to
\* v_i.c + |v_i| r <= b_i over the constraint rows.
C4_ChebyshevCenterInside ==
    (call.fn = "chebyshev_center" /\ ~ChebyshevMismatch /\ IsPolytope(Ab)) =>
        LET g == ChebyshevCallRows
            nrm == [i \in 1..Len(g.A) |-> Norm(g.A[i])]
        IN  /\ call.ret.kind = "value"
            /\ HalfSatRows(Ab.A, Ab.b, call.ret.center2)
            /\ call.args.form = "Polyhedron" => HalfInPoly(P, call.ret.center2)
            /\ \A i \in 1..Len(g.A) :
                  Dot(g.A[i], call.ret.center2) + nrm[i] * call.ret.r2 <= 2 * g.b[i]
            /\ ~HasRoom(g.A, nrm, ChebyshevLPBound(g.b), g.n,
                        SetMax({0} \cup {RowReach(g.A[i], 2 * g.b[i]) : i \in 1..Len(g.A)}),
                        call.ret.r2 + 1)

\* (C5) For a box built by BoxInfty from center c and radius r >= 0 and a
\* direction d with every component positive,
\* support_function(box, d, return_xopt = True) returns sum_i d_i (c_i + r)
\* and the optimizer whose coordinate i is c_i + r.
C5_BoxSupport ==
    (/\ ObjectSupportCall
     /\ box.made
     /\ call.args.return_xopt
     /\ \A j \in 1..Ab.n : call.args.d[j] > 0) =>
        /\ call.ret.kind = "value"
        /\ call.ret.val = SumSeq([j \in 1..Ab.n |-> call.args.d[j] * (box.center[j] + box.radius)])
        /\ call.ret.xopt = [j \in 1..Ab.n |-> box.center[j] + box.radius]
SupportCall == call.fn = "support_function"

\* (C6) Homogeneity.  Whenever support_function(P, d) returns a value, for
\* an object or a pair, support_function(P, lambda d) returns lambda times
\* that value for every lambda >= 0; with lambda = 0 the zero direction
\* returns 0.  (The call is the plain one, which returns the value alone.)
C6_Homogeneity ==
    (SupportCall /\ ~call.args.return_xopt /\ call.ret.kind = "value") =>
        \A lambda \in 0..MaxLambda :
            LET s == support_function(Arg(call.args.form), Scale(lambda, call.args.d))
            IN  /\ s.kind = "value"
                /\ s.val = lambda * call.ret.val

\* a call on a non-zero direction returned a non-zero value
C6_Witness ==
    /\ SupportCall
    /\ ~call.args.return_xopt
    /\ call.ret.kind = "value"
    /\ call.ret.val # 0
    /\ Ab.n = 2

\* (C7) Empty-set convention.  On a polytope object that reports itself
\* empty, support_function returns 0 for every direction, and no LP model
\* was created, no constraint added and the solver not called.
C7_EmptySetConvention ==
    (ObjectSupportCall /\ is_empty(P)) =>
        /\ call.ret.kind = "value"
        /\ call.ret.val = 0
        /\ call.ret.lp = NoLP

\* support_function returned from a call on an empty object, non-zero direction
C7_Witness ==
    /\ ObjectSupportCall
    /\ is_empty(P)
    /\ call.args.d # zero_vector(P.n)

\* the caller's pair is an axis-aligned hyperrectangle
Hyperrectangle == IsPolytope(Ab) /\ AxisAligned(Ab)

\* the points of {x : Ax <= b} of the caller's pair
PairPoints == Feasible(Ab.A, Ab.b, Ab.n, Reach(Ab.A, Ab.b, Ab.n))

\* (C8) On an axis-aligned hyperrectangle, diameter_vertex_enumeration(P)
\* equals the first component of diameter_support_function(A, b) for a pair
\* of the same set, and the latter returns u_j = max x_j, l_j = min x_j and
\* diam = max_j (u_j - l_j); for the cube of half-width r this is 2r.
C8_DiameterAgreement ==
    /\ (call.fn = "diameter_vertex_enumeration" /\ Hyperrectangle) =>
          LET s == diameter_support_function(Ab.A, Ab.b, Ab.n)
          IN  s.kind = "value" /\ call.ret.diam = s.diam
    /\ (call.fn = "diameter_support_function" /\ Hyperrectangle) =>
          /\ call.ret.kind = "value"
          /\ \A j \in 1..Ab.n :
                /\ call.ret.u[j] = SetMax({x[j] : x \in PairPoints})
                /\ call.ret.l[j] = SetMin({x[j] : x \in PairPoints})
          /\ call.ret.diam = SetMax({call.ret.u[j] - call.ret.l[j] : j \in 1..Ab.n})
          /\ box.made => call.ret.diam = 2 * box.radius

\* the vertex enumeration ran on a square that is not a point
C8_Witness ==
    /\ call.fn = "diameter_vertex_enumeration"
    /\ Hyperrectangle
    /\ Ab.n = 2
    /\ call.ret.diam > 0

\* (C9) For a non-empty bounded polytope given as the list [A, b],
\* radius([A, b]) is the largest of the 2n values |rho(e_i)|, |rho(-e_i)|
\* and is the largest sup-norm of a point of {x : Ax <= b}; for a box of
\* half-width r centered at the origin it is r.
C9_RadiusIsSupNorm ==
    (call.fn = "radius" /\ call.args.form = "list" /\ IsPolytope(Ab)) =>
        /\ call.ret.kind = "value"
        /\ call.ret.val =
              SetMax({Abs(support_function(ListArg(Ab), Scale(s, UnitVec(Ab.n, i))).val) :
                         i \in 1..Ab.n, s \in {1, -1}})
        /\ call.ret.val = SetMax({MaxAbs(x) : x \in PairPoints})
        /\ (box.made /\ box.center = zero_vector(Ab.n)) => call.ret.val = box.radius

\* radius returned from a list of a polytope in the plane, away from the origin
C9_Witness ==
    /\ call.fn = "radius"
    /\ call.args.form = "list"
    /\ IsPolytope(Ab)
    /\ Ab.n = 2
    /\ call.ret.val > 0

\* (C10) radius accepts a polytope object as well as a list [A, b]: it
\* never returns without a value, and on the object it returns what it
\* returns on the list of the same polytope.
C10_RadiusBothForms ==
    call.fn = "radius" =>
        /\ call.ret.kind # "None"
        /\ call.args.form = "Polyhedron" => call.ret = radius(ListArg(Ab))
\* (C11) chebyshev_center on a polytope object P returns a center whose
\* base ring is that of P: rational for a rational P, double for a double P.
C11_CenterKeepsRing ==
    (/\ call.fn = "chebyshev_center"
     /\ call.args.form = "Polyhedron"
     /\ call.ret.kind = "value") =>
        call.ret.ring = P.base_ring
\* (C12) chebyshev_center on a pair (A, b) whose A has another number of
\* rows than b has entries returns the empty result, raises nothing, and has
\* then added no constraint to the LP and not called the solver.
C12_MismatchReturnsEmpty ==
    ChebyshevMismatch =>
        /\ call.ret.kind = "empty"
        /\ call.ret.exc = ""
        /\ call.ret.lp.constraints = 0
        /\ call.ret.lp.solves = 0

\* chebyshev_center returned from a pair in the plane whose b is too short
C12_Witness ==
    /\ ChebyshevMismatch
    /\ Ab.n = 2
    /\ Len(call.args.b) < Len(Ab.A)
    /\ call.ret.kind = "empty"
\* BoxInfty returned the pair [A, b]
BoxPairCall == call.fn = "BoxInfty" /\ call.args.return_HSpaceRep

C14_EntriesInTargetField ==
    (/\ call.fn = "polyhedron_from_Hrep"
     /\ call.args.base_ring \in Rings
     /\ call.args.shape = "numpy.ndarray" \/ Ab.ring # call.args.base_ring) =>
        /\ call.ret.kind = "value"
        /\ call.ret.ieqs_ring = call.args.base_ring

====
